---- MODULE Spec2Model ----
(***************************************************************************)
(* The ticketing data pipeline of pilotage-billetterie-marseille:          *)
(*   scripts/01_generate_data.py   the generator   (events, transactions,  *)
(*                                 attendance)                             *)
(*   scripts/02_quality_checks.py  the quality checker                     *)
(*   scripts/03_prepare_exports.py the BI exporter                         *)
(* The three scripts share one working directory, the variable fs.         *)
(*                                                                         *)
(* Units.  Instants are minutes since START_DATE 00:00.  Amounts of money  *)
(* are 1/10000 euro while a unit price is computed and cents once rounded. *)
(* Probabilities are hundredths.  A draw of a normal law is in tenths of a *)
(* day (lead time) or in 1/10000 euro (price noise).                       *)
(***************************************************************************)
EXTENDS Integers, Sequences, FiniteSets, TLC

VARIABLES
    fs,         \* the working directory: file name -> table, or NoFile
    hist,       \* the scripts the operator has launched, in order
    proc,       \* the script that is running, or "idle"
    pc,         \* the position inside the running script
    events,     \* 01: the list `events`
    df_events,  \* 01: the sorted frame `df_events`
    tx_rows,    \* 01: the list `tx_rows`
    tx_id,      \* 01: the counter `tx_id`
    idx,        \* 01: the index of the event whose transactions are drawn
    n_left,     \* 01: iterations left in `for _ in range(n_tx)`
    lam,        \* 01: the mean handed to np.random.poisson, times LamDen
    att_rows,   \* 01: the list `att_rows`
    p_log,      \* 01: the values the local `p_attend` took, in order
    qc,         \* 02: the checker's locals and outcome
    bi          \* 03: the exporter's locals and outcome

vars == <<fs, hist, proc, pc, events, df_events, tx_rows, tx_id, idx, n_left,
          lam, att_rows, p_log, qc, bi>>

genVars == <<events, df_events, tx_rows, tx_id, idx, n_left, lam, att_rows,
             p_log>>

(***************************************************************************)
(* Configuration (01_generate_data.py, lines 15-19), scaled down.          *)
(***************************************************************************)
N_EVENTS == 2
TARGET_TRANSACTIONS == 20
MaxTx == 2          \* the rows one run may draw in all

MinutesPerDay == 1440
MinUnitPrice == 50000        \* max(5.0, ...)
LamFloor == 10               \* max(10, ...)
BaseAttend == 92
LatePenalty == 5
VeryLatePenalty == 4
TouristPenalty == 3
PassPenalty == 2
ClipLow == 75
ClipHigh == 98
EarlyThreshold == 45
VeryEarlyThreshold == 75

CHANNELS == {"web", "partenaire", "guichet", "pass"}
TARIFFS == {"plein", "reduit", "early_bird", "last_minute"}
geo_values == {"local", "touriste"}

NoFile == [kind |-> "absent"]
Dir == [kind |-> "dir"]

\* paths (01: lines 20, 228-230; 02: lines 8-17; 03: lines 8-9, 15-17, 35)
OUTPUT_DIR == "data/raw"
PROC_DIR == "data/processed"
DOCS_DIR == "docs"
EVENTS_FP == "data/raw/events.csv"
TX_FP == "data/raw/transactions_sample.csv"
ATT_FP == "data/raw/attendance_sample.csv"
GEN_TX_FP == "data/raw/transactions.csv"
GEN_ATT_FP == "data/raw/attendance.csv"
REPORT_FP == "docs/data_quality_report.md"
SUMMARY_FP == "docs/quality_summary.csv"
BI_FP == "data/processed/billetterie_bi.csv"

Paths == {OUTPUT_DIR, PROC_DIR, DOCS_DIR, EVENTS_FP, TX_FP, ATT_FP, GEN_TX_FP,
          GEN_ATT_FP, REPORT_FP, SUMMARY_FP, BI_FP}

Max(a, b) == IF a >= b THEN a ELSE b
Min(a, b) == IF a <= b THEN a ELSE b

(***************************************************************************)
(* Formatting.                                                             *)
(***************************************************************************)
RECURSIVE Digits(_)
Digits(n) == IF n < 10 THEN <<n>> ELSE Append(Digits(n \div 10), n % 10)

RECURSIVE Zeros(_)
Zeros(k) == IF k <= 0 THEN <<>> ELSE <<0>> \o Zeros(k - 1)

\* f"{n:0{w}d}": at least w digits, never truncated
ZeroPad(n, w) == Zeros(w - Len(Digits(n))) \o Digits(n)

EventId(i) == <<"E">> \o ZeroPad(i, 3)

TxId(n) == <<"T">> \o ZeroPad(n, 6)

\* datetime.isoformat(sep=" "): "YYYY-MM-DD HH:MM:SS" as <<day, hour, minute>>
IsoFormat(t) == <<t \div MinutesPerDay, (t % MinutesPerDay) \div 60, t % 60>>

\* datetime.fromisoformat / pd.to_datetime on such a string
FromIso(s) == s[1] * MinutesPerDay + s[2] * 60 + s[3]

\* the order of the strings, which sort_values("date_time") uses
IsoLeq(a, b) ==
    \/ a[1] < b[1]
    \/ a[1] = b[1] /\ a[2] < b[2]
    \/ a[1] = b[1] /\ a[2] = b[2] /\ a[3] <= b[3]

(***************************************************************************)
(* Frames and CSV files.  A frame is its set of columns and its rows, each *)
(* row a function from the columns to values.                              *)
(***************************************************************************)
\* pd.DataFrame(list of dicts): the columns are the keys of the dicts
DataFrame(rows) ==
    [cols |-> UNION {DOMAIN rows[i] : i \in DOMAIN rows}, rows |-> rows]

\* DataFrame.to_csv(index=False): a header line (empty for a frame without
\* columns) and one line per row
ToCsv(df) == [kind |-> "csv", cols |-> df.cols, rows |-> df.rows]

Exists(dir, path) == dir[path] # NoFile

\* pd.read_csv: a file without a header line raises EmptyDataError
CanParse(file) == file.cols # {}
ReadCsv(file) == [cols |-> file.cols, rows |-> file.rows]

\* Path.mkdir(parents=True, exist_ok=True)
MkDir(dir, d) == [dir EXCEPT ![d] = Dir]

(***************************************************************************)
(* 01_generate_data.py: the sampling functions.                            *)
(***************************************************************************)
tariff_multiplier(tariff) ==
    CASE tariff = "plein" -> 100
      [] tariff = "reduit" -> 80
      [] tariff = "early_bird" -> 75
      [] tariff = "last_minute" -> 90

channel_fee(channel) ==
    CASE channel = "web" -> 100
      [] channel = "partenaire" -> 102
      [] channel = "guichet" -> 100
      [] channel = "pass" -> 0

\* np.clip
Clip(x, lo, hi) == Min(Max(x, lo), hi)

\* int() of a float given in tenths: truncation toward zero
IntOfTenths(x) == IF x >= 0 THEN x \div 10 ELSE -((-x) \div 10)

\* a mutant of sample_lead_time: the draw is truncated but not clipped
sample_lead_time_noclip(tariff, z) == IntOfTenths(z)

\* sample_lead_time(tariff), z the draw of np.random.normal in tenths of a day
sample_lead_time(tariff, z) ==
    IF tariff = "early_bird" THEN IntOfTenths(Clip(z, 7 * 10, 90 * 10))
    ELSE IF tariff = "last_minute" THEN IntOfTenths(Clip(z, 0 * 10, 10 * 10))
    ELSE IntOfTenths(Clip(z, 0 * 10, 60 * 10))

\* sample_qty(): np.random.choice([1, 2, 3, 4, 5], p=...), q the value drawn
QtyValues == {1, 2, 3, 4, 5}
sample_qty(q) == q

\* a mutant of PurchaseDt: the correction of a purchase after the event is lost
PurchaseDtNoFix(ev_dt, lead_days, h, m, rh) ==
    ev_dt - lead_days * MinutesPerDay + h * 60 + m

\* lines 157-160; h, m the time-of-day draws, rh the draw of the correction
PurchaseDt(ev_dt, lead_days, h, m, rh) ==
    LET purchase_dt == ev_dt - lead_days * MinutesPerDay + h * 60 + m
    IN  IF purchase_dt > ev_dt THEN ev_dt - rh * 60 ELSE purchase_dt

\* round(x, 2) of an amount in 1/10000 euro, in cents
Round2(x) == (x + 50) \div 100

\* a mutant of PriceTotal: the floor of the unit price is lost
PriceTotalNoFloor(base, tariff, channel, qty, noise) ==
    IF channel = "pass" THEN 0
    ELSE Round2((base * tariff_multiplier(tariff) * channel_fee(channel) + noise) * qty)

\* lines 165-173; base in euros, noise the draw of np.random.normal(0, 0.6)
PriceTotal(base, tariff, channel, qty, noise) ==
    IF channel = "pass" THEN 0
    ELSE LET unit == base * tariff_multiplier(tariff) * channel_fee(channel)
             floored == Max(MinUnitPrice, unit + noise)
         IN  Round2(floored * qty)

\* a mutant of PAttend: the tourist penalty is added instead of subtracted
PAttendTouristUp(lead, geo, channel) ==
    Clip(BaseAttend
           - (IF lead >= EarlyThreshold THEN LatePenalty ELSE 0)
           - (IF lead >= VeryEarlyThreshold THEN VeryLatePenalty ELSE 0)
           + (IF geo = "touriste" THEN TouristPenalty ELSE 0)
           - (IF channel = "pass" THEN PassPenalty ELSE 0), ClipLow, ClipHigh)

\* lines 203-213
PAttend(lead, geo, channel) ==
    Clip(BaseAttend
           - (IF lead >= EarlyThreshold THEN LatePenalty ELSE 0)
           - (IF lead >= VeryEarlyThreshold THEN VeryLatePenalty ELSE 0)
           - (IF geo = "touriste" THEN TouristPenalty ELSE 0)
           - (IF channel = "pass" THEN PassPenalty ELSE 0), ClipLow, ClipHigh)

\* the denominator of lam: base_targets[idx] * u with u in hundredths
LamDen(cap_sum) == cap_sum * 100

\* a mutant of Lam: the floor of the mean is lost
LamNoFloor(capacity, cap_sum, u) == capacity * TARGET_TRANSACTIONS * u

\* line 148: max(10, base_targets[idx] * u), times LamDen(cap_sum)
Lam(capacity, cap_sum, u) ==
    Max(LamFloor * LamDen(cap_sum), capacity * TARGET_TRANSACTIONS * u)

RECURSIVE SumCapacity(_)
SumCapacity(rows) ==
    IF rows = <<>> THEN 0 ELSE rows[1].capacity + SumCapacity(Tail(rows))

\* a mutant of NextTxId: the counter is not advanced
NextTxIdStuck(n) == n

\* line 188
NextTxId(n) == n + 1

\* lines 175-187
TxRow(ev, n, lead_days, purchase_dt, qty, total, channel, tariff, buyer_geo) ==
    [transaction_id |-> TxId(n),
     event_id |-> ev.event_id,
     purchase_datetime |-> IsoFormat(purchase_dt),
     tickets_qty |-> qty,
     price_paid_total |-> total,
     channel |-> channel,
     tariff |-> tariff,
     buyer_geo |-> buyer_geo,
     lead_time_days |-> lead_days]

\* lines 89-100
EventRow(i, genre, venue, zone, event_dt, capacity, base_price) ==
    [event_id |-> EventId(i),
     event_name |-> <<genre, i>>,
     venue_name |-> venue,
     date_time |-> IsoFormat(event_dt),
     capacity |-> capacity,
     base_price |-> base_price,
     genre |-> genre,
     quartier_zone |-> zone]

(***************************************************************************)
(* The draws.  Random draws are nondeterministic choices.  Every draw set  *)
(* is a subset of the support of the law the code draws from.  The         *)
(* pipeline (Spec) draws rows from the narrow sets; the exhaustive study   *)
(* of one row (SpecRow) draws from the wide ones.                          *)
(***************************************************************************)
GenreDraws == {"Concert"}
VenueDraws == {"Salle Prado"}
ZoneDraws == {"Prado"}
DayDraws == {0, 1}                 \* dt_range: days after START_DATE
HourDraws == {21}                  \* random.choice([18, 19, 20, 21])
CapacityDraws == {150, 2000}       \* of [150, 250, 400, 700, 1200, 2000]
PriceDraws == {12}                 \* of [12, 15, 18, 22, 28, 35, 45]
JitterDraws == {85, 115}           \* np.random.uniform(0.85, 1.15), hundredths

WideHourDraws == {18, 21}
WidePriceDraws == {12, 45}

\* np.random.normal(mean, sd) for the lead time, tenths of a day
LeadDraws == {-30, 0, 9, 10, 75, 140, 449, 450, 755, 800, 1200}
\* random.randint(9, 21), random.choice([0, 10, ..., 50]), random.randint(1, 6)
HourOffsets == {9, 21}
MinuteOffsets == {0, 50}
FixHours == {1, 6}
\* np.random.normal(0, 0.6) for the unit price, 1/10000 euro
NoiseDraws == {-600000, 0, 6000}

(***************************************************************************)
(* The operator launches the scripts, one at a time, each at most once in  *)
(* a behaviour.                                                            *)
(***************************************************************************)
GenIdle ==
    /\ events = <<>> /\ df_events = <<>> /\ tx_rows = <<>> /\ tx_id = 0
    /\ idx = 0 /\ n_left = 0 /\ lam = 0 /\ att_rows = <<>> /\ p_log = <<>>

\* status: "idle", "running", "done", or the exception that ended the run
QcIdle == [status |-> "idle", missing |-> <<>>, hint |-> FALSE, read |-> {},
           wrote |-> {}, summary |-> <<>>, verdict |-> "none"]
BiIdle == [status |-> "idle", key |-> "none", wrote |-> {}]

\* 01, lines 60-65: seeds, ensure_dir(OUTPUT_DIR)
StartGen ==
    /\ proc = "idle" /\ \A i \in DOMAIN hist : hist[i] # "gen"
    /\ proc' = "gen" /\ pc' = "catalog"
    /\ hist' = Append(hist, "gen")
    /\ fs' = MkDir(fs, OUTPUT_DIR)
    /\ UNCHANGED <<genVars, qc, bi>>

\* 01, lines 71-100: one iteration of the catalog loop
GenEvent ==
    /\ proc = "gen" /\ pc = "catalog" /\ Len(events) < N_EVENTS
    /\ \E genre \in GenreDraws, venue \in VenueDraws, zone \in ZoneDraws,
          day \in DayDraws, hour \in HourDraws, capacity \in CapacityDraws,
          base_price \in PriceDraws :
          LET i == Len(events) + 1
              \* .replace(minute=0, second=0, microsecond=0), .replace(hour=hour)
              event_dt == day * MinutesPerDay + hour * 60
          IN  events' = Append(events,
                  EventRow(i, genre, venue, zone, event_dt, capacity, base_price))
    /\ UNCHANGED <<fs, hist, proc, pc, df_events, tx_rows, tx_id, idx, n_left,
                   lam, att_rows, p_log, qc, bi>>

IndexOrders(n) ==
    {f \in [1..n -> 1..n] : \A i, j \in 1..n : i # j => f[i] # f[j]}

\* sort_values("date_time"): any order of the rows that sorts the strings
SortedFrames(rows) ==
    {[i \in 1..Len(rows) |-> rows[f[i]]] : f \in
        {g \in IndexOrders(Len(rows)) :
            \A i \in 1..(Len(rows) - 1) :
                IsoLeq(rows[g[i]].date_time, rows[g[i + 1]].date_time)}}

\* 01, lines 102-145: the catalog is complete; sort, reset the index, tx_id = 1
GenSort ==
    /\ proc = "gen" /\ pc = "catalog" /\ Len(events) = N_EVENTS
    /\ df_events' \in SortedFrames(events)
    /\ tx_rows' = <<>> /\ tx_id' = 1 /\ idx' = 0 /\ n_left' = 0
    /\ pc' = "tx"
    /\ UNCHANGED <<fs, hist, proc, events, lam, att_rows, p_log, qc, bi>>

\* 01, lines 147-149: the head of one iteration over df_events.  The count
\* is a draw of np.random.poisson(lam), any natural number; the run as a
\* whole draws at most MaxTx rows.
GenEventHead ==
    /\ proc = "gen" /\ pc = "tx" /\ n_left = 0 /\ idx < Len(df_events)
    /\ \E u \in JitterDraws, n_tx \in 0..(MaxTx - Len(tx_rows)) :
          /\ lam' = Lam(df_events[idx + 1].capacity, SumCapacity(df_events), u)
          /\ n_left' = n_tx
    /\ idx' = idx + 1
    /\ UNCHANGED <<fs, hist, proc, pc, events, df_events, tx_rows, tx_id,
                   att_rows, p_log, qc, bi>>

\* 01, lines 151-188: one iteration of `for _ in range(n_tx)`, the draws
\* taken from the given sets
GenTxFrom(Tariffs, Channels, Geos, Leads, Hours, Minutes, Fixes, Qtys, Noises) ==
    /\ proc = "gen" /\ pc = "tx" /\ n_left > 0
    /\ \E tariff \in Tariffs, channel \in Channels, buyer_geo \in Geos,
          z \in Leads, h \in Hours, m \in Minutes, rh \in Fixes,
          q \in Qtys, noise \in Noises :
          LET ev == df_events[idx]
              ev_dt == FromIso(ev.date_time)
              lead_days == sample_lead_time(tariff, z)
              purchase_dt == PurchaseDt(ev_dt, lead_days, h, m, rh)
              qty == sample_qty(q)
              total == PriceTotal(ev.base_price, tariff, channel, qty, noise)
          IN  tx_rows' = Append(tx_rows,
                  TxRow(ev, tx_id, lead_days, purchase_dt, qty, total,
                        channel, tariff, buyer_geo))
    /\ tx_id' = NextTxId(tx_id)
    /\ n_left' = n_left - 1
    /\ UNCHANGED <<fs, hist, proc, pc, events, df_events, idx, lam, att_rows,
                   p_log, qc, bi>>

GenTx ==
    GenTxFrom({"plein"}, {"web"}, {"local"}, {140}, {12}, {0}, {1}, {2}, {0})

GenTxWide ==
    GenTxFrom(TARIFFS, CHANNELS, geo_values, LeadDraws, HourOffsets,
              MinuteOffsets, FixHours, QtyValues, NoiseDraws)

\* 01, line 190: both loops are over
GenTxDone ==
    /\ proc = "gen" /\ pc = "tx" /\ n_left = 0 /\ idx = Len(df_events)
    /\ pc' = "att"
    /\ lam' = 0
    /\ UNCHANGED <<fs, hist, proc, events, df_events, tx_rows, tx_id, idx,
                   n_left, att_rows, p_log, qc, bi>>

\* 01, lines 197-221: one iteration over df_tx; random.random() < p_attend
\* can come out either way when 0 < p_attend < 1
GenAtt ==
    /\ proc = "gen" /\ pc = "att" /\ Len(att_rows) < Len(tx_rows)
    /\ LET r == tx_rows[Len(att_rows) + 1]
           p == PAttend(r.lead_time_days, r.buyer_geo, r.channel)
       IN  /\ p_log' = Append(p_log, p)
           /\ \E attended \in {0, 1} :
                 /\ (attended = 1) => p > 0
                 /\ (attended = 0) => p < 100
                 /\ att_rows' = Append(att_rows,
                        [transaction_id |-> r.transaction_id,
                         attended |-> attended])
    /\ UNCHANGED <<fs, hist, proc, pc, events, df_events, tx_rows, tx_id, idx,
                   n_left, lam, qc, bi>>

\* 01, lines 223-234: the three frames are written
GenSave ==
    /\ proc = "gen" /\ pc = "att" /\ Len(att_rows) = Len(tx_rows)
    /\ fs' = [fs EXCEPT ![EVENTS_FP] = ToCsv(DataFrame(df_events)),
                        ![GEN_TX_FP] = ToCsv(DataFrame(tx_rows)),
                        ![GEN_ATT_FP] = ToCsv(DataFrame(att_rows))]
    /\ pc' = "saved"
    /\ UNCHANGED <<hist, proc, genVars, qc, bi>>

\* 01, lines 236-240: the summary is printed and the process ends
GenExit ==
    /\ proc = "gen" /\ pc = "saved"
    /\ proc' = "idle" /\ pc' = "none"
    /\ events' = <<>> /\ df_events' = <<>> /\ tx_rows' = <<>> /\ tx_id' = 0
    /\ idx' = 0 /\ n_left' = 0 /\ lam' = 0 /\ att_rows' = <<>> /\ p_log' = <<>>
    /\ UNCHANGED <<fs, hist, qc, bi>>

(***************************************************************************)
(* 02_quality_checks.py                                                    *)
(***************************************************************************)
required_events ==
    {"event_id", "event_name", "venue_name", "date_time", "capacity", "base_price"}
required_tx ==
    {"transaction_id", "event_id", "purchase_datetime", "tickets_qty",
     "price_paid_total", "channel", "tariff", "buyer_geo", "lead_time_days"}
required_att == {"transaction_id", "attended"}

InputFiles == <<EVENTS_FP, TX_FP, ATT_FP>>

\* a mutant of Missing: only the first absent file is reported
MissingFirstOnly(dir) ==
    LET all == SelectSeq(InputFiles, LAMBDA f : ~Exists(dir, f))
    IN  IF all = <<>> THEN <<>> ELSE <<all[1]>>

\* line 36: [str(p) for p in [EVENTS_FP, TX_FP, ATT_FP] if not p.exists()]
Missing(dir) == SelectSeq(InputFiles, LAMBDA f : ~Exists(dir, f))

\* (mask).sum(): the number of rows a mask selects, the mask given as the
\* set of the positions it selects
CountRows(mask) == Cardinality(mask)

\* Series.duplicated().sum(): the rows whose value occurred in an earlier row
Duplicated(rows, col) ==
    Cardinality({i \in DOMAIN rows : \E j \in 1..(i - 1) : rows[j][col] = rows[i][col]})

\* lines 74-76: `... if col in df.columns else None`, then `or 0` in line 114
DupCount(df, col) == IF col \in df.cols THEN Duplicated(df.rows, col) ELSE 0

\* lines 80-85: the rows of `df` whose `col` is no value of `col` in `ref`
Orphans(df, ref, col) ==
    IF col \in df.cols /\ col \in ref.cols
    THEN CountRows({i \in DOMAIN df.rows :
            \A j \in DOMAIN ref.rows : ref.rows[j][col] # df.rows[i][col]})
    ELSE 0

\* lines 97-103: the rows of the left merge whose purchase is after the event
BadTime(tx, ev) ==
    Cardinality({<<i, j>> \in (DOMAIN tx.rows) \X (DOMAIN ev.rows) :
        /\ tx.rows[i].event_id = ev.rows[j].event_id
        /\ FromIso(tx.rows[i].purchase_datetime) > FromIso(ev.rows[j].date_time)})

\* pct(n, d): "—" when d = 0, else the rate with one decimal, in tenths
pct(n, d) ==
    IF d = 0 THEN [dash |-> TRUE, tenths |-> 0]
    ELSE [dash |-> FALSE, tenths |-> (2000 * n + d) \div (2 * d)]

SummaryRow(category, check, issues, rows_checked) ==
    [category |-> category, check |-> check, issues |-> issues,
     rows_checked |-> rows_checked, issue_rate |-> pct(issues, rows_checked)]

\* int(schema_ok): 1 for True, 0 for False
IntOfBool(b) == IF b THEN 1 ELSE 0

\* lines 48-54, 74-130: the summary frame
Summary(ev, tx, att) ==
    LET n_ev == Len(ev.rows)
        n_tx == Len(tx.rows)
        n_att == Len(att.rows)
    IN  << SummaryRow("schema", "events required columns present",
                      IntOfBool(required_events \subseteq ev.cols), 1),
           SummaryRow("schema", "transactions required columns present",
                      IntOfBool(required_tx \subseteq tx.cols), 1),
           SummaryRow("schema", "attendance required columns present",
                      IntOfBool(required_att \subseteq att.cols), 1),
           SummaryRow("duplicates", "events.event_id duplicates",
                      DupCount(ev, "event_id"), n_ev),
           SummaryRow("duplicates", "transactions.transaction_id duplicates",
                      DupCount(tx, "transaction_id"), n_tx),
           SummaryRow("duplicates", "attendance.transaction_id duplicates",
                      DupCount(att, "transaction_id"), n_att),
           SummaryRow("integrity", "orphan transactions (event_id not in events)",
                      Orphans(tx, ev, "event_id"), n_tx),
           SummaryRow("integrity",
                      "orphan attendance (transaction_id not in transactions)",
                      Orphans(att, tx, "transaction_id"), n_att),
           SummaryRow("rules", "capacity <= 0",
                      CountRows({i \in DOMAIN ev.rows : ev.rows[i].capacity <= 0}), n_ev),
           SummaryRow("rules", "base_price <= 0",
                      CountRows({i \in DOMAIN ev.rows : ev.rows[i].base_price <= 0}), n_ev),
           SummaryRow("rules", "tickets_qty <= 0",
                      CountRows({i \in DOMAIN tx.rows : tx.rows[i].tickets_qty <= 0}), n_tx),
           SummaryRow("rules", "price_paid_total <= 0",
                      CountRows({i \in DOMAIN tx.rows : tx.rows[i].price_paid_total <= 0}), n_tx),
           SummaryRow("rules", "lead_time_days < 0",
                      CountRows({i \in DOMAIN tx.rows : tx.rows[i].lead_time_days < 0}), n_tx),
           SummaryRow("rules", "purchase after event date", BadTime(tx, ev), n_tx),
           SummaryRow("rules", "attendance not in {0,1}",
                      CountRows({i \in DOMAIN att.rows :
                                    att.rows[i].attended \notin {0, 1}}),
                      n_att) >>

\* the columns lines 58-66 and 97 index without a guard
IndexedEvents == {"date_time", "capacity", "base_price", "event_id"}
IndexedTx == {"purchase_datetime", "tickets_qty", "price_paid_total",
              "lead_time_days", "event_id"}
IndexedAtt == {"attended"}

\* line 151: summary[summary["issues"] > 0]
Flags(summary) == SelectSeq(summary, LAMBDA r : r.issues > 0)

\* sort_values("issues", ascending=False) of at most 15 rows: an insertion
\* sort, which keeps the order of equal rows
RECURSIVE InsertDesc(_, _)
InsertDesc(sorted, r) ==
    IF sorted = <<>> THEN <<r>>
    ELSE IF sorted[Len(sorted)].issues >= r.issues THEN Append(sorted, r)
    ELSE Append(InsertDesc(SubSeq(sorted, 1, Len(sorted) - 1), r),
                sorted[Len(sorted)])

RECURSIVE SortDesc(_)
SortDesc(rows) ==
    IF rows = <<>> THEN <<>>
    ELSE InsertDesc(SortDesc(SubSeq(rows, 1, Len(rows) - 1)), rows[Len(rows)])

Head6(rows) == SubSeq(rows, 1, Min(6, Len(rows)))

\* lines 134-159: the lines of the markdown report
Report(ev, tx, att, summary) ==
    [kind |-> "md",
     files |-> <<Len(ev.rows), Len(tx.rows), Len(att.rows)>>,
     table |-> summary,
     verdict |-> IF Len(Flags(summary)) = 0 THEN "No issues detected"
                 ELSE "Issues detected",
     top |-> [i \in DOMAIN Head6(SortDesc(Flags(summary))) |->
                Head6(SortDesc(Flags(summary)))[i].check]]

\* 02, lines 32-33: ensure_dirs()
StartQc ==
    /\ proc = "idle" /\ \A i \in DOMAIN hist : hist[i] # "qc"
    /\ proc' = "qc" /\ pc' = "inputs"
    /\ hist' = Append(hist, "qc")
    /\ fs' = MkDir(MkDir(fs, PROC_DIR), DOCS_DIR)
    /\ qc' = [QcIdle EXCEPT !.status = "running"]
    /\ UNCHANGED <<genVars, bi>>

\* 02, lines 36-41: the existence check; FileNotFoundError ends the process
QcInputs ==
    /\ proc = "qc" /\ pc = "inputs"
    /\ LET missing == Missing(fs)
       IN  IF missing # <<>>
           THEN /\ qc' = [qc EXCEPT !.status = "FileNotFoundError",
                                    !.missing = missing, !.hint = TRUE]
                /\ proc' = "idle" /\ pc' = "none"
           ELSE /\ pc' = "load"
                /\ UNCHANGED <<qc, proc>>
    /\ UNCHANGED <<fs, hist, genVars, bi>>

\* 02, lines 43-131: the three files are read, the checks are computed and
\* the summary is written; an exception ends the process
QcChecks ==
    /\ proc = "qc" /\ pc = "load"
    /\ LET parsed == {f \in {EVENTS_FP, TX_FP, ATT_FP} : CanParse(fs[f])}
           ev == ReadCsv(fs[EVENTS_FP])
           tx == ReadCsv(fs[TX_FP])
           att == ReadCsv(fs[ATT_FP])
       IN  IF parsed # {EVENTS_FP, TX_FP, ATT_FP}
           THEN /\ qc' = [qc EXCEPT !.status = "EmptyDataError",
                             !.read = IF EVENTS_FP \notin parsed THEN {}
                                      ELSE IF TX_FP \notin parsed THEN {EVENTS_FP}
                                      ELSE {EVENTS_FP, TX_FP}]
                /\ proc' = "idle" /\ pc' = "none"
                /\ fs' = fs
           ELSE IF ~ /\ IndexedEvents \subseteq ev.cols
                     /\ IndexedTx \subseteq tx.cols
                     /\ IndexedAtt \subseteq att.cols
           THEN /\ qc' = [qc EXCEPT !.status = "KeyError",
                                    !.read = {EVENTS_FP, TX_FP, ATT_FP}]
                /\ proc' = "idle" /\ pc' = "none"
                /\ fs' = fs
           ELSE /\ qc' = [qc EXCEPT !.read = {EVENTS_FP, TX_FP, ATT_FP},
                                    !.summary = Summary(ev, tx, att),
                                    !.wrote = {SUMMARY_FP}]
                /\ fs' = [fs EXCEPT ![SUMMARY_FP] =
                            ToCsv(DataFrame(Summary(ev, tx, att)))]
                /\ pc' = "report"
                /\ proc' = proc
    /\ UNCHANGED <<hist, genVars, bi>>

\* 02, lines 134-165: the report is written and the process ends
QcReport ==
    /\ proc = "qc" /\ pc = "report"
    /\ LET rep == Report(ReadCsv(fs[EVENTS_FP]), ReadCsv(fs[TX_FP]),
                         ReadCsv(fs[ATT_FP]), qc.summary)
       IN  /\ fs' = [fs EXCEPT ![REPORT_FP] = rep]
           /\ qc' = [qc EXCEPT !.status = "done", !.verdict = rep.verdict,
                               !.wrote = {SUMMARY_FP, REPORT_FP}]
    /\ proc' = "idle" /\ pc' = "none"
    /\ UNCHANGED <<hist, genVars, bi>>

(***************************************************************************)
(* 03_prepare_exports.py                                                   *)
(***************************************************************************)
NaN == "NaN"

\* pd.to_datetime(...) of a column, as the CSV writer prints it back
Reparse(df, col) ==
    [df EXCEPT !.rows = [i \in DOMAIN df.rows |->
        [df.rows[i] EXCEPT ![col] = IsoFormat(FromIso(df.rows[i][col]))]]]

RECURSIVE Flatten(_)
Flatten(seqs) == IF seqs = <<>> THEN <<>> ELSE seqs[1] \o Flatten(Tail(seqs))

\* left.merge(right, on=key, how="left", suffixes=(lsuf, rsuf)): every left
\* row, once per right row with the same key, or once with NaN when there is
\* none; a column of both frames other than the key takes the suffixes
Merge(left, right, key, lsuf, rsuf) ==
    LET both == (left.cols \cap right.cols) \ {key}
        lname(c) == IF c \in both THEN c \o lsuf ELSE c
        rname(c) == IF c \in both THEN c \o rsuf ELSE c
        lcols == {lname(c) : c \in left.cols}
        rcols == {rname(c) : c \in right.cols \ {key}}
        lpart(l) == [c \in lcols |-> l[CHOOSE c0 \in left.cols : lname(c0) = c]]
        rpart(r) == [c \in rcols |->
                        r[CHOOSE c0 \in right.cols \ {key} : rname(c0) = c]]
        nopart == [c \in rcols |-> NaN]
        matches(l) == SelectSeq(right.rows, LAMBDA r : r[key] = l[key])
        rowsOf(l) == IF matches(l) = <<>> THEN << lpart(l) @@ nopart >>
                     ELSE [j \in DOMAIN matches(l) |-> lpart(l) @@ rpart(matches(l)[j])]
    IN  [cols |-> lcols \cup rcols,
         rows |-> Flatten([i \in DOMAIN left.rows |-> rowsOf(left.rows[i])])]

\* att[["tx_id", "no_show", "attended_qty"]]
Project(df, cols) ==
    [cols |-> cols, rows |-> [i \in DOMAIN df.rows |-> [c \in cols |-> df.rows[i][c]]]]

\* df[col] = values: a frame with one more column, values[i] in row i
WithColumn(df, col, values) ==
    [cols |-> df.cols \cup {col},
     rows |-> [i \in DOMAIN df.rows |->
                [c \in df.cols \cup {col} |->
                    IF c = col THEN values[i] ELSE df.rows[i][c]]]]

\* df[col]: the values of a column, row by row
Column(df, col) == [i \in DOMAIN df.rows |-> df.rows[i][col]]

\* lines 20-33: the first column the script indexes that the frames lack
BiKeyError(ev, tx, att) ==
    CASE "event_date" \notin ev.cols -> "event_date"
      [] "purchase_date" \notin tx.cols -> "purchase_date"
      [] "event_date" \notin tx.cols -> "event_date"
      [] "event_date" \notin att.cols -> "event_date"
      [] "event_id" \notin tx.cols \/ "event_id" \notin ev.cols -> "event_id"
      [] ~ ({"tx_id", "no_show", "attended_qty"} \subseteq att.cols) -> "tx_id"
      [] "tx_id" \notin tx.cols -> "tx_id"
      [] "days_before_event" \notin tx.cols -> "days_before_event"
      [] " days_before_event" \notin tx.cols -> " days_before_event"
      [] OTHER -> "none"

\* lines 20-33: the export frame
BiFrame(ev, tx, att) ==
    LET ev1 == Reparse(ev, "event_date")
        tx1 == Reparse(Reparse(tx, "purchase_date"), "event_date")
        m1 == Merge(tx1, ev1, "event_id", "", "_ev")
        m2 == Merge(m1, Project(att, {"tx_id", "no_show", "attended_qty"}),
                    "tx_id", "_x", "_y")
        c1 == WithColumn(m2, "purchase_day",
                  [i \in DOMAIN m2.rows |-> <<Column(m2, "purchase_date")[i][1]>>])
        c2 == WithColumn(c1, "event_day",
                  [i \in DOMAIN c1.rows |-> <<Column(c1, "event_date")[i][1]>>])
        c3 == WithColumn(c2, "is_early",
                  [i \in DOMAIN c2.rows |->
                      IntOfBool(Column(c2, "days_before_event")[i] > 45)])
    IN  WithColumn(c3, "is_late",
                  [i \in DOMAIN c3.rows |->
                      IntOfBool(Column(c3, " days_before_event")[i] <= 7)])

\* 03, line 13
StartBi ==
    /\ proc = "idle" /\ \A i \in DOMAIN hist : hist[i] # "bi"
    /\ proc' = "bi" /\ pc' = "load"
    /\ hist' = Append(hist, "bi")
    /\ fs' = MkDir(fs, PROC_DIR)
    /\ bi' = [BiIdle EXCEPT !.status = "running"]
    /\ UNCHANGED <<genVars, qc>>

\* 03, lines 15-37: the files are read, joined and written; an exception
\* ends the process
BiExport ==
    /\ proc = "bi" /\ pc = "load"
    /\ LET inputs == <<EVENTS_FP, GEN_TX_FP, GEN_ATT_FP>>
           absent == SelectSeq(inputs, LAMBDA f : ~Exists(fs, f))
           empty == SelectSeq(inputs, LAMBDA f : Exists(fs, f) /\ ~CanParse(fs[f]))
           bad == SelectSeq(inputs, LAMBDA f : ~Exists(fs, f) \/ ~CanParse(fs[f]))
       IN  IF bad # <<>>
           THEN /\ bi' = [bi EXCEPT !.status =
                            IF Exists(fs, bad[1]) THEN "EmptyDataError"
                            ELSE "FileNotFoundError"]
                /\ fs' = fs
           ELSE LET ev == ReadCsv(fs[EVENTS_FP])
                    tx == ReadCsv(fs[GEN_TX_FP])
                    att == ReadCsv(fs[GEN_ATT_FP])
                IN  IF BiKeyError(ev, tx, att) # "none"
                    THEN /\ bi' = [bi EXCEPT !.status = "KeyError",
                                       !.key = BiKeyError(ev, tx, att)]
                         /\ fs' = fs
                    ELSE /\ bi' = [bi EXCEPT !.status = "done", !.wrote = {BI_FP}]
                         /\ fs' = [fs EXCEPT ![BI_FP] = ToCsv(BiFrame(ev, tx, att))]
    /\ proc' = "idle" /\ pc' = "none"
    /\ UNCHANGED <<hist, genVars, qc>>

(***************************************************************************)
(* The working directory before the first script runs.                     *)
(***************************************************************************)
SampleEvent(i, day, capacity) ==
    EventRow(i, "Concert", "Salle Prado", "Prado", day * MinutesPerDay + 20 * 60,
             capacity, 18)

SampleTx(n, ev, lead_days, purchase_dt, total, channel) ==
    TxRow(ev, n, lead_days, purchase_dt, 2, total, channel, "plein", "local")

SampleAtt(n, attended) == [transaction_id |-> TxId(n), attended |-> attended]

CleanEvents == ToCsv(DataFrame(<<SampleEvent(1, 30, 400)>>))
CleanTx ==
    ToCsv(DataFrame(<<SampleTx(1, SampleEvent(1, 30, 400), 14,
                               16 * MinutesPerDay + 32 * 60, 3600, "web")>>))
CleanAtt == ToCsv(DataFrame(<<SampleAtt(1, 1)>>))

\* a transaction of an unknown event, bought after it, twice the same
\* identifier, a free "pass" purchase; a capacity of zero; an attendance of 2
\* for an unknown transaction
DirtyEvents == ToCsv(DataFrame(<<SampleEvent(1, 30, 0)>>))
DirtyTx ==
    ToCsv(DataFrame(<<SampleTx(1, SampleEvent(1, 30, 0), 0,
                               30 * MinutesPerDay + 21 * 60, 0, "pass"),
                      SampleTx(1, SampleEvent(9, 30, 0), 3,
                               27 * MinutesPerDay + 29 * 60, 3600, "web")>>))
DirtyAtt == ToCsv(DataFrame(<<SampleAtt(1, 1), SampleAtt(7, 2)>>))

\* an events file without the column venue_name
Without(file, col) ==
    [file EXCEPT !.cols = @ \ {col},
                 !.rows = [i \in DOMAIN @ |-> [c \in (DOMAIN @[i]) \ {col} |-> @[i][c]]]]

\* files in the layout 03_prepare_exports.py indexes
LegacyEvents ==
    ToCsv(DataFrame(<<[event_id |-> EventId(1), event_name |-> <<"Concert", 1>>,
                       event_date |-> <<30, 20, 0>>]>>))
LegacyTx ==
    ToCsv(DataFrame(
        <<[tx_id |-> TxId(1), event_id |-> EventId(1),
           purchase_date |-> <<10, 9, 0>>, event_date |-> <<30, 20, 0>>,
           days_before_event |-> 50] @@ (" days_before_event" :> 50),
          [tx_id |-> TxId(2), event_id |-> EventId(9),
           purchase_date |-> <<27, 9, 0>>, event_date |-> <<30, 20, 0>>,
           days_before_event |-> 3] @@ (" days_before_event" :> 3)>>))
LegacyAtt ==
    ToCsv(DataFrame(<<[tx_id |-> TxId(1), event_date |-> <<30, 20, 0>>,
                       no_show |-> 0, attended_qty |-> 2]>>))

EmptyDir == [p \in Paths |-> NoFile]

\* the directory data/raw holding the given files
RawDir(ev, tx, att) ==
    [EmptyDir EXCEPT ![OUTPUT_DIR] = IF {ev, tx, att} = {NoFile} THEN NoFile ELSE Dir,
                     ![EVENTS_FP] = ev, ![TX_FP] = tx, ![ATT_FP] = att]

\* a fresh checkout, a directory that holds clean sample files, and a
\* directory whose files have the layout 03_prepare_exports.py indexes
InitialDirs ==
    {EmptyDir,
     RawDir(CleanEvents, CleanTx, CleanAtt),
     [EmptyDir EXCEPT ![OUTPUT_DIR] = Dir, ![EVENTS_FP] = LegacyEvents,
                      ![GEN_TX_FP] = LegacyTx, ![GEN_ATT_FP] = LegacyAtt]}

\* the directories the checker is studied on: every input absent, clean or
\* dirty, and clean inputs that lack one column
CheckerDirs ==
    {RawDir(ev, tx, att) : ev \in {NoFile, CleanEvents, DirtyEvents},
                           tx \in {NoFile, CleanTx, DirtyTx},
                           att \in {NoFile, CleanAtt, DirtyAtt}}
    \cup {RawDir(Without(CleanEvents, "venue_name"), CleanTx, CleanAtt),
          RawDir(CleanEvents, Without(CleanTx, "channel"), CleanAtt),
          RawDir(CleanEvents, Without(CleanTx, "tickets_qty"), CleanAtt),
          RawDir(CleanEvents, CleanTx, Without(CleanAtt, "transaction_id")),
          RawDir(CleanEvents, CleanTx, ToCsv(DataFrame(<<>>)))}

Init ==
    /\ fs \in InitialDirs
    /\ hist = <<>> /\ proc = "idle" /\ pc = "none"
    /\ GenIdle
    /\ qc = QcIdle /\ bi = BiIdle

Next ==
    \/ StartGen \/ GenEvent \/ GenSort \/ GenEventHead \/ GenTx \/ GenTxDone
    \/ GenAtt \/ GenSave \/ GenExit
    \/ StartQc \/ QcInputs \/ QcChecks \/ QcReport
    \/ StartBi \/ BiExport

Spec == Init /\ [][Next]_vars

\* The checker alone, on any of CheckerDirs
InitQc ==
    /\ fs \in CheckerDirs
    /\ hist = <<>> /\ proc = "idle" /\ pc = "none"
    /\ GenIdle
    /\ qc = QcIdle /\ bi = BiIdle

NextQc == StartQc \/ QcInputs \/ QcChecks \/ QcReport

SpecQc == InitQc /\ [][NextQc]_vars

\* One row, exhaustively: the generator is at the head of the iteration over
\* the last event of the catalog, the earlier events having drawn no row,
\* and one row is left to draw.
RowEvents ==
    {[i \in 1..N_EVENTS |->
        EventRow(i, "Concert", "Salle Prado", "Prado", hour * 60, capacity,
                 base_price)] :
        hour \in WideHourDraws, capacity \in {150}, base_price \in WidePriceDraws}

InitRow ==
    /\ fs = MkDir(EmptyDir, OUTPUT_DIR)
    /\ hist = <<"gen">> /\ proc = "gen" /\ pc = "tx"
    /\ events \in RowEvents /\ df_events = events
    /\ tx_rows = <<>> /\ tx_id = 1 /\ idx = N_EVENTS /\ n_left = 1
    /\ lam \in {Lam(150, 150 * N_EVENTS, u) : u \in JitterDraws}
    /\ att_rows = <<>> /\ p_log = <<>>
    /\ qc = QcIdle /\ bi = BiIdle

NextRow == GenTxWide \/ GenTxDone \/ GenAtt \/ GenSave \/ GenExit

SpecRow == InitRow /\ [][NextRow]_vars

\* The attendance loop over two rows: the generator is at the head of the
\* loop, the last event having drawn the two rows of tx_rows.
AttLeads == {0, 5, 44, 45, 74, 75, 80, 90}

AttRow(ev, n, lead_days, buyer_geo, channel) ==
    LET tariff == IF lead_days >= 7 THEN "early_bird" ELSE "plein"
    IN  TxRow(ev, n, lead_days,
              PurchaseDt(FromIso(ev.date_time), lead_days, 12, 0, 1), 1,
              PriceTotal(ev.base_price, tariff, channel, 1, 0),
              channel, tariff, buyer_geo)

InitAtt ==
    /\ fs = MkDir(EmptyDir, OUTPUT_DIR)
    /\ hist = <<"gen">> /\ proc = "gen" /\ pc = "att"
    /\ events = [i \in 1..N_EVENTS |->
                    EventRow(i, "Concert", "Salle Prado", "Prado", 20 * 60, 150, 12)]
    /\ df_events = events
    /\ \E l1 \in AttLeads, l2 \in AttLeads, g1 \in geo_values, g2 \in geo_values,
          c1 \in CHANNELS, c2 \in CHANNELS :
          tx_rows = << AttRow(events[N_EVENTS], 1, l1, g1, c1),
                       AttRow(events[N_EVENTS], 2, l2, g2, c2) >>
    /\ tx_id = 3 /\ idx = N_EVENTS /\ n_left = 0
    /\ lam = 0
    /\ att_rows = <<>> /\ p_log = <<>>
    /\ qc = QcIdle /\ bi = BiIdle

NextAtt == GenAtt \/ GenSave \/ GenExit

SpecAtt == InitAtt /\ [][NextAtt]_vars

(***************************************************************************)
(* The claims.                                                             *)
(***************************************************************************)
\* the generator has drawn every row and written its files
GenComplete ==
    /\ \E i \in DOMAIN hist : hist[i] = "gen"
    /\ proc = "gen" => pc = "saved"

\* script b was launched after script a and has ended
RanAfter(a, b) ==
    /\ \E i, j \in DOMAIN hist : i < j /\ hist[i] = a /\ hist[j] = b
    /\ proc # b

\* the date-time of the event a transaction row belongs to
EventTimeOf(r, evs) ==
    FromIso((CHOOSE e \in {evs[j] : j \in DOMAIN evs} : e.event_id = r.event_id).date_time)

\* C1: every transaction the generator has drawn, and every transaction of
\* the file it writes, has a purchase date-time that is not after the
\* date-time of its event.
C1_PurchaseNotAfterEvent ==
    /\ \A i \in DOMAIN tx_rows :
          FromIso(tx_rows[i].purchase_datetime) <= EventTimeOf(tx_rows[i], df_events)
    /\ Exists(fs, GEN_TX_FP) =>
          \A i \in DOMAIN fs[GEN_TX_FP].rows :
              FromIso(fs[GEN_TX_FP].rows[i].purchase_datetime)
                  <= EventTimeOf(fs[GEN_TX_FP].rows[i], fs[EVENTS_FP].rows)

\* a row bought the day of the event, whose purchase time was corrected
C1_Witness ==
    \E i \in DOMAIN tx_rows :
        /\ tx_rows[i].lead_time_days = 0
        /\ FromIso(tx_rows[i].purchase_datetime)
              = EventTimeOf(tx_rows[i], df_events) - 6 * 60

\* C2: once the generator and then the checker have run, the checker has
\* completed and its summary counts no orphan transaction, no orphan
\* attendance, no capacity <= 0 and no attendance outside {0,1}.
C2_EndToEndClean ==
    RanAfter("gen", "qc") =>
        /\ qc.status = "done"
        /\ \A i \in DOMAIN qc.summary :
              qc.summary[i].check \in
                  {"orphan transactions (event_id not in events)",
                   "orphan attendance (transaction_id not in transactions)",
                   "capacity <= 0", "attendance not in {0,1}"}
              => qc.summary[i].issues = 0

\* the rows the generator drew for the event at position j of df_events
RowsOfEvent(j) ==
    {i \in DOMAIN tx_rows : tx_rows[i].event_id = df_events[j].event_id}

\* C3, as claimed: once the loops are over, every event of the catalog has
\* at least 10 transactions.
C3_AtLeastTenPerEvent ==
    (proc = "gen" /\ pc \in {"att", "saved"}) =>
        \A j \in DOMAIN df_events : Cardinality(RowsOfEvent(j)) >= LamFloor

\* C3, amended: the mean handed to the Poisson draw of an event's count is
\* at least 10 (the count itself is any natural number).
C3_MeanAtLeastTen ==
    (proc = "gen" /\ pc = "tx" /\ idx >= 1) =>
        lam >= LamFloor * LamDen(SumCapacity(df_events))

\* the last event's mean was floored at 10 and the event drew no row
C3_Witness ==
    /\ proc = "gen" /\ pc = "tx" /\ idx = Len(df_events) /\ n_left = 0
    /\ lam = LamFloor * LamDen(SumCapacity(df_events))
    /\ RowsOfEvent(idx) = {}

\* C4: a row of the "pass" channel has a total of 0 and a row of any other
\* channel a total above 0.
C4_PassFreeOthersPaid ==
    \A i \in DOMAIN tx_rows :
        IF tx_rows[i].channel = "pass"
        THEN tx_rows[i].price_paid_total = 0
        ELSE tx_rows[i].price_paid_total > 0

\* a paid row whose unit price is the floor of 5.00
C4_Witness ==
    \E i \in DOMAIN tx_rows :
        /\ tx_rows[i].channel # "pass"
        /\ tx_rows[i].price_paid_total = (MinUnitPrice \div 100) * tx_rows[i].tickets_qty

\* C5: in the files the generator has written, no transaction_id occurs
\* twice in either table, every attendance row names a transaction and every
\* transaction has exactly one attendance row.
C5_AttendanceBijection ==
    GenComplete =>
        LET T == fs[GEN_TX_FP].rows
            A == fs[GEN_ATT_FP].rows
        IN  /\ \A i, j \in DOMAIN T :
                  i # j => T[i].transaction_id # T[j].transaction_id
            /\ \A i, j \in DOMAIN A :
                  i # j => A[i].transaction_id # A[j].transaction_id
            /\ \A i \in DOMAIN A : \E j \in DOMAIN T :
                  A[i].transaction_id = T[j].transaction_id
            /\ \A j \in DOMAIN T :
                  Cardinality({i \in DOMAIN A :
                      A[i].transaction_id = T[j].transaction_id}) = 1

C5_Witness == GenComplete /\ Len(fs[GEN_TX_FP].rows) >= 2

\* the export the claim describes: transactions left-joined with events on
\* event_id, then with attendance on transaction_id, and the two flags
ClaimedExport(ev, tx, att) ==
    LET joined == Merge(Merge(tx, ev, "event_id", "", "_ev"), att,
                        "transaction_id", "_x", "_y")
        early == WithColumn(joined, "is_early",
                    [i \in DOMAIN joined.rows |->
                        IntOfBool(joined.rows[i]["lead_time_days"] > 45)])
    IN  WithColumn(early, "is_late",
                    [i \in DOMAIN early.rows |->
                        IntOfBool(early.rows[i]["lead_time_days"] <= 7)])

\* C6: once the generator and then the exporter have run, the exporter has
\* written the export the claim describes.
C6_ExportIsLeftJoin ==
    RanAfter("gen", "bi") =>
        /\ bi.status = "done"
        /\ Exists(fs, BI_FP)
        /\ fs[BI_FP] = ToCsv(ClaimedExport(ReadCsv(fs[EVENTS_FP]),
                                           ReadCsv(fs[GEN_TX_FP]),
                                           ReadCsv(fs[GEN_ATT_FP])))

AbsentInputs == {f \in {EVENTS_FP, TX_FP, ATT_FP} : ~Exists(fs, f)}

\* C7: when an input file is absent, the checker ends at the existence
\* check with FileNotFoundError, its message names exactly the absent files
\* and gives the hint, no table was read and neither output was written.
C7_MissingInputHalts ==
    (AbsentInputs # {} /\ qc.status # "idle" /\ ~(proc = "qc" /\ pc = "inputs")) =>
        /\ qc.status = "FileNotFoundError"
        /\ {qc.missing[i] : i \in DOMAIN qc.missing} = AbsentInputs
        /\ qc.hint
        /\ qc.read = {} /\ qc.wrote = {}
        /\ ~Exists(fs, REPORT_FP) /\ ~Exists(fs, SUMMARY_FP)

C7_Witness ==
    /\ qc.status = "FileNotFoundError"
    /\ Cardinality(AbsentInputs) = 2

\* the clamp range the claim gives for a tariff
ClampLo(tariff) == IF tariff = "early_bird" THEN 7 ELSE 0
ClampHi(tariff) ==
    CASE tariff = "early_bird" -> 90
      [] tariff = "last_minute" -> 10
      [] OTHER -> 60

\* C8: every row has 1 to 5 tickets and a lead time inside the clamp range
\* of its tariff.
C8_QtyAndLeadInRange ==
    \A i \in DOMAIN tx_rows :
        /\ tx_rows[i].tickets_qty \in 1..5
        /\ tx_rows[i].lead_time_days \in
              ClampLo(tx_rows[i].tariff)..ClampHi(tx_rows[i].tariff)

\* a row whose draw was below the range and one whose draw was above it
C8_Witness ==
    \E i \in DOMAIN tx_rows :
        /\ tx_rows[i].tariff = "last_minute"
        /\ tx_rows[i].lead_time_days = 10
        /\ tx_rows[i].tickets_qty = 5

\* C9: over the rows of one run, the attendance probability lies in
\* [0.75, 0.98], does not rise with the lead time (geography and channel
\* equal), is not higher for a tourist than for a local (lead time and
\* channel equal), and a tourist at 80 days has at most the probability of a
\* local at 5 days on the same channel.
C9_AttendanceMonotone ==
    \A i, j \in DOMAIN p_log :
        LET a == tx_rows[i]
            b == tx_rows[j]
        IN  /\ p_log[i] >= ClipLow /\ p_log[i] <= ClipHigh
            /\ (a.channel = b.channel /\ a.buyer_geo = b.buyer_geo
                  /\ a.lead_time_days <= b.lead_time_days) => p_log[i] >= p_log[j]
            /\ (a.channel = b.channel /\ a.lead_time_days = b.lead_time_days
                  /\ a.buyer_geo = "local" /\ b.buyer_geo = "touriste")
                  => p_log[i] >= p_log[j]
            /\ (a.channel = b.channel /\ a.buyer_geo = "local"
                  /\ a.lead_time_days = 5 /\ b.buyer_geo = "touriste"
                  /\ b.lead_time_days = 80) => p_log[i] >= p_log[j]

\* a local at 5 days and a tourist at 80 days on the same channel
C9_Witness ==
    /\ Len(p_log) = 2
    /\ tx_rows[1].channel = tx_rows[2].channel
    /\ tx_rows[1].buyer_geo = "local" /\ tx_rows[1].lead_time_days = 5
    /\ tx_rows[2].buyer_geo = "touriste" /\ tx_rows[2].lead_time_days = 80
    /\ p_log[2] < p_log[1]

\* C10: in a completed run, a schema check whose table has every required
\* column counts 0 issues, and when no other check counts an issue either
\* the verdict is "No issues detected".
C10_SchemaChecksCountZero ==
    qc.status = "done" =>
        LET ok == << required_events \subseteq fs[EVENTS_FP].cols,
                     required_tx \subseteq fs[TX_FP].cols,
                     required_att \subseteq fs[ATT_FP].cols >>
        IN  /\ \A k \in 1..3 : ok[k] => qc.summary[k].issues = 0
            /\ ((\A k \in 1..3 : ok[k])
                  /\ (\A k \in 4..Len(qc.summary) : qc.summary[k].issues = 0))
               => qc.verdict = "No issues detected"

====
